---- MODULE Spec2Model ----
(***************************************************************************)
(* The 1s Vlog: the VideoPreview component (frame-by-frame export through  *)
(* the WebAssembly encoder) together with the clip list owned by App.      *)
(*                                                                         *)
(* Times are integers counted in ticks of 1/300 s, the least unit in which *)
(* both one export frame (1/30 s = 10 ticks) and the resolver's epsilon    *)
(* (0.01 s = 3 ticks) are whole numbers.  One second is 300 ticks.         *)
(***************************************************************************)
EXTENDS Integers, Sequences, FiniteSets, TLC

\* ------------------------------------------------------------------------
\* Program constants
\* ------------------------------------------------------------------------
fps == 30
EpsilonHz == 100
PadWidth == 5
ProgressHalf == 50
NULL == "null"
\* exportBlob === null, and out.mp4 absent from the store
NoBlob == [frames |-> 0]
\* no handleMainAction call in flight
NoVideo == [currentTime |-> 0, shown |-> 0, seeking |-> FALSE, fires |-> FALSE]
NoFrame == [pc |-> "none", expectedTime |-> 0, by |-> "none", sampled |-> 0]
NoJob == [clips |-> <<>>, totalDuration |-> 0, totalFrames |-> 0, i |-> 0,
          pc |-> "none", exitCode |-> 0, exportPhase |-> "idle", progress |-> 0 - 1]

\* least common multiple of the frame rate and 1/epsilon: ticks per second
TicksPerSecond ==
    CHOOSE n \in 1..(fps * EpsilonHz) :
        /\ n % fps = 0 /\ n % EpsilonHz = 0
        /\ \A m \in 1..(n - 1) : ~(m % fps = 0 /\ m % EpsilonHz = 0)
Epsilon == TicksPerSecond \div EpsilonHz
\* frameTime = i / fps
TicksPerFrame == TicksPerSecond \div fps
\* clipDuration: 1.0 of every uploaded clip
ClipDuration == TicksPerSecond
\* step: 0.1 of the trim slider
TrimStep == TicksPerSecond \div 10

\* ------------------------------------------------------------------------
\* Bounds of the model
\* ------------------------------------------------------------------------
\* resolver inputs: sequences of at most MaxLen clips, times up to TimeMargin
\* ticks outside [0, totalDuration]
MaxLen == 3
TimeMargin == 2
\* application: number of files ever uploaded, the trim slider position
\* tried besides 0 (in steps of 0.1 s), revocations counted per media handle
MaxUploads == 2
MaxTrimSteps == 1
MaxRevokes == 2
\* frame capture and still writing fail at frames 0 .. MaxThrowFrame only
MaxThrowFrame == 0
MaxClockTicks == 2
MaxOverlayFrames == 2
MaxPlayback == 3
\* setTimeout callbacks pending at once
MaxTimers == 2
\* files in one upload, handleUpload calls in flight at once
MaxBatch == 2
MaxCalls == 2

\* clip durations offered to the resolver (0.5 s, 1.0 s, 1.5 s)
ResolverDurations ==
    {TicksPerSecond \div 2, TicksPerSecond, TicksPerSecond + TicksPerSecond \div 2}
\* source duration of the n-th uploaded file: 2.0 s and 0.5 s in turn
SourceDuration(n) == IF n % 2 = 1 THEN 2 * TicksPerSecond ELSE TicksPerSecond \div 2
\* title texts typed and style buttons clicked in the title editor
Texts == {"", "1s"}
ProgressSignals == {33, 100}
StylesTried == {"simple"}

\* ------------------------------------------------------------------------
\* State
\* ------------------------------------------------------------------------
VARIABLES
    \* App
    clips,          \* the Sequence: list of [id, duration, startTime, clipDuration]
    titleSettings,  \* [text, style]
    nextId,         \* number of ids handed out by uuidv4 so far, plus one
    uploads,        \* the handleUpload calls in flight: [files, i, newClips]
    \* VideoPreview: PlaybackState
    isPlaying,
    currentTime,
    isReady,
    \* VideoPreview: ExportState
    isExporting,
    exportPhase,
    exportProgress,
    exportBlob,     \* NoBlob or the artifact [frames]
    error,
    \* VideoPreview: media handles (videoElementsRef) and preload closures
    videoElements,  \* id -> [warm, run]: handle in the map, its load listener's run
    revoked,        \* id -> number of URL.revokeObjectURL calls on the handle's src
    preloadRuns,    \* run -> [loadedCount, totalClips] of a preload effect run
    \* encoder (ffmpegRef and its virtual store)
    ffmpegLoaded,
    progressPhase,  \* NULL or the exportPhase the "progress" listener closes over
    store,          \* names of the still images in the virtual store
    outFile,        \* NoBlob or the content of out.mp4
    \* the handleMainAction call in flight
    job,            \* NoJob or [clips, totalDuration, totalFrames, i, pc, exitCode,
                    \*   exportPhase (of the render it was called in), progress]
    written,        \* names of the stills written by the export in flight
    \* renderFrame: the arguments and locals of a call of its lookup loop
    time,           \* its `time` argument
    activeClip,     \* index of the clip chosen by the loop, 0 = null
    clipLocalTime,  \* offset inside the chosen clip
    resolved,       \* TRUE once the lookup loop has run
    \* renderFrame in export mode: the active clip's handle and the call
    video,          \* [currentTime, shown, seeking, fires] of the handle
    frame,          \* [pc, expectedTime, by, sampled] of the call
    \* animate: the playback loop
    startTimeRef,   \* startTimeRef.current, 0 = not set
    clock,          \* performance.now(), and the timestamp of the next frame
    \* drawText: the wall clock, the 2D context it draws on, an export's frames
    now,            \* what new Date() returns: [year, month, day, hour, minute, second]
    ctx,            \* [ops, state, stack] of the canvas of the last renderFrame
    exportRun,      \* [settings, frames]: the overlays of the frames of an export
    \* renderFrame in preview mode
    timers,         \* the pending setTimeout callbacks, in the order of their calls
    playing,        \* ids of the handles that are not paused
    display         \* [time, by]: the last frame drawn on the preview canvas

appVars == <<clips, titleSettings, nextId, uploads>>
playVars == <<isPlaying, currentTime, isReady>>
exportVars == <<isExporting, exportPhase, exportProgress, exportBlob, error>>
handleVars == <<videoElements, revoked, preloadRuns>>
encoderVars == <<ffmpegLoaded, progressPhase, store, outFile>>
jobVars == <<job, written>>
seekVars == <<video, frame>>
animVars == <<startTimeRef, clock>>
overlayVars == <<now, ctx, exportRun>>
previewVars == <<timers, playing, display>>
frameVars == <<time, activeClip, clipLocalTime, resolved, seekVars, animVars,
               overlayVars, previewVars>>

vars == <<appVars, playVars, exportVars, handleVars, encoderVars, jobVars, frameVars>>

Min(a, b) == IF a <= b THEN a ELSE b
Max(a, b) == IF a >= b THEN a ELSE b

\* clips.reduce((acc, clip) => acc + clip.clipDuration, 0)
RECURSIVE SumDurations(_, _)
SumDurations(cs, k) ==
    IF k = 0 THEN 0 ELSE SumDurations(cs, k - 1) + cs[k].clipDuration

totalDuration(cs) == SumDurations(cs, Len(cs))

\* ------------------------------------------------------------------------
\* Timeline Resolver: the clip-lookup loop of renderFrame
\* ------------------------------------------------------------------------
NoClip == [activeClip |-> 0, clipLocalTime |-> 0]

RECURSIVE LookupLoopNoFloor(_, _, _, _)
RECURSIVE LookupLoopLate(_, _, _, _)
RECURSIVE LookupLoop(_, _, _, _)

\* the loop without the lower test `time >= timeAccumulator`
LookupLoopNoFloor(t, cs, k, timeAccumulator) ==
    IF k > Len(cs) THEN NoClip
    ELSE IF (t < timeAccumulator + cs[k].clipDuration \/ t = totalDuration(cs))
         THEN [activeClip |-> k,
               clipLocalTime |-> Min(t - timeAccumulator, cs[k].clipDuration - Epsilon)]
         ELSE LookupLoopNoFloor(t, cs, k + 1, timeAccumulator + cs[k].clipDuration)

\* the loop with a closed upper end on every clip
LookupLoopLate(t, cs, k, timeAccumulator) ==
    IF k > Len(cs) THEN NoClip
    ELSE IF t >= timeAccumulator
            /\ (t <= timeAccumulator + cs[k].clipDuration \/ t = totalDuration(cs))
         THEN [activeClip |-> k,
               clipLocalTime |-> Min(t - timeAccumulator, cs[k].clipDuration - Epsilon)]
         ELSE LookupLoopLate(t, cs, k + 1, timeAccumulator + cs[k].clipDuration)

\* for (const clip of clips) { if (time >= timeAccumulator && (time <
\* timeAccumulator + clip.clipDuration || time === totalDuration)) {...; break}
\* timeAccumulator += clip.clipDuration }
LookupLoop(t, cs, k, timeAccumulator) ==
    IF k > Len(cs) THEN NoClip
    ELSE IF t >= timeAccumulator
            /\ (t < timeAccumulator + cs[k].clipDuration \/ t = totalDuration(cs))
         THEN [activeClip |-> k,
               clipLocalTime |-> Min(t - timeAccumulator, cs[k].clipDuration - Epsilon)]
         ELSE LookupLoop(t, cs, k + 1, timeAccumulator + cs[k].clipDuration)

ResolveNoFloor(t, cs) == LookupLoopNoFloor(t, cs, 1, 0)

Resolve(t, cs) == LookupLoop(t, cs, 1, 0)


\* ------------------------------------------------------------------------
\* Media Preloader: the preload effect of VideoPreview, run on every new
\* `clips` array, preceded by the cleanup the previous run returned
\* ------------------------------------------------------------------------
Ids(cs) == {cs[k].id : k \in 1..Len(cs)}

SetMin(S) == CHOOSE x \in S : \A y \in S : x <= y

\* cleanup of the previous run: videoElementsRef.current.forEach(revoke);
\* a run on an empty Sequence returns no cleanup
PreloadCleanup(oldClips, rv) ==
    IF Len(oldClips) = 0 THEN rv
    ELSE [id \in DOMAIN rv |-> rv[id] + 1]

\* ids for which the effect body creates a video element
Created(cs, ve) == Ids(cs) \ DOMAIN ve

\* the handle map after the effect body
PreloadElements(cs, ve) ==
    [id \in DOMAIN ve \cup Created(cs, ve) |->
        IF id \in DOMAIN ve THEN ve[id]
        ELSE [warm |-> FALSE, run |-> SetMin(Created(cs, ve))]]

\* loadedCount after the forEach: one per clip whose handle was in the map
LoadedAtOnce(cs, ve) == Cardinality({k \in 1..Len(cs) : cs[k].id \in DOMAIN ve})

\* isReady after the effect body
PreloadReady(cs, ve) ==
    IF Len(cs) = 0 THEN TRUE
    ELSE LoadedAtOnce(cs, ve) = Len(cs)

\* the closures that still have a load listener attached
PreloadClosures(cs, ve, runs) ==
    IF Created(cs, ve) = {} THEN runs
    ELSE [r \in DOMAIN runs \cup {SetMin(Created(cs, ve))} |->
            IF r \in DOMAIN runs THEN runs[r]
            ELSE [loadedCount |-> LoadedAtOnce(cs, ve), totalClips |-> Len(cs)]]

\* the invalidation effect on [clips, titleSettings]
InvalidateOnClipsOnly(blob, titleChanged) == IF titleChanged THEN blob ELSE NoBlob

Invalidate(blob, titleChanged) == NoBlob

\* ------------------------------------------------------------------------
\* Preview: the effects that draw on the canvas, and their timers
\* ------------------------------------------------------------------------
\* setTimeout(() => renderFrame(0), 100) of the ready-frame effect
ReadyDelay == TicksPerSecond \div 10
\* setTimeout(() => renderFrame(time), 0) of handleSeek
SeekDelay == 0
\* a pending callback: the time it draws, the clips its renderFrame closes over
ReadyTimer(cs) == [kind |-> "ready", time |-> 0, clips |-> cs, delay |-> ReadyDelay]
SeekTimer(t, cs) == [kind |-> "seek", time |-> t, clips |-> cs, delay |-> SeekDelay]

\* the ready-frame effect run again: clearTimeout(timer) of the run before,
\* then a new timer if (isReady && !isPlaying)
ReadyEffect(ts, cs, ready, play) ==
    LET cleared == SelectSeq(ts, LAMBDA x : x.kind # "ready")
    IN IF ready /\ ~play THEN Append(cleared, ReadyTimer(cs)) ELSE cleared

\* the initial-frame effect: if (!isPlaying) renderFrame(0)
InitialFrame(d, play) == IF play THEN d ELSE [time |-> 0, by |-> "effect"]

\* the playback effect when stopped: videoElementsRef.current.forEach(v => v.pause())
PauseAll(ps, play) == IF play THEN ps ELSE {}

\* the effects of a render in which clips, isPlaying or renderFrame changed
PreviewEffects(cs, ready, play) ==
    /\ timers' = ReadyEffect(timers, cs, ready, play)
    /\ display' = InitialFrame(display, play)
    /\ playing' = PauseAll(playing, play)

\* every effect of VideoPreview that depends on `clips`
ClipsChanged(cs) ==
    /\ \A id \in DOMAIN revoked : Len(clips) > 0 => revoked[id] < MaxRevokes
    /\ clips' = cs
    /\ revoked' = [id \in DOMAIN PreloadElements(cs, videoElements) |->
                     IF id \in DOMAIN revoked
                     THEN PreloadCleanup(clips, revoked)[id] ELSE 0]
    /\ videoElements' = PreloadElements(cs, videoElements)
    /\ preloadRuns' = PreloadClosures(cs, videoElements, preloadRuns)
    /\ isReady' = PreloadReady(cs, videoElements)
    /\ exportBlob' = Invalidate(exportBlob, FALSE)
    /\ currentTime' = 0
    /\ PreviewEffects(cs, PreloadReady(cs, videoElements), isPlaying)
    /\ UNCHANGED <<titleSettings, isPlaying, isExporting, exportPhase,
                   exportProgress, error, encoderVars, jobVars, time, activeClip,
                   clipLocalTime, resolved, seekVars, animVars, overlayVars>>

\* the load event (canplaythrough) of the handle of clip id
onCanPlay(id) ==
    /\ id \in DOMAIN videoElements
    /\ ~videoElements[id].warm
    /\ LET r == videoElements[id].run
           n == preloadRuns[r].loadedCount + 1
           pending == {j \in DOMAIN videoElements :
                          j # id /\ ~videoElements[j].warm /\ videoElements[j].run = r}
       IN /\ videoElements' = [videoElements EXCEPT ![id].warm = TRUE]
          /\ preloadRuns' =
                IF pending = {}
                THEN [q \in DOMAIN preloadRuns \ {r} |-> preloadRuns[q]]
                ELSE [preloadRuns EXCEPT ![r].loadedCount = n]
          /\ isReady' = IF n = preloadRuns[r].totalClips THEN TRUE ELSE isReady
          /\ timers' = IF n = preloadRuns[r].totalClips /\ ~isReady
                        THEN ReadyEffect(timers, clips, TRUE, isPlaying)
                        ELSE timers
    /\ UNCHANGED <<appVars, isPlaying, currentTime, exportVars, revoked,
                   encoderVars, jobVars, time, activeClip, clipLocalTime, resolved,
                   seekVars, animVars, overlayVars, playing, display>>

\* ------------------------------------------------------------------------
\* App: the clip list and the title editor
\* ------------------------------------------------------------------------
Append1(cs, c) == cs \o <<c>>
\* a list without its k-th element
RemoveAt(ts, k) == [j \in 1..(Len(ts) - 1) |-> IF j < k THEN ts[j] ELSE ts[j + 1]]

\* handleUpload of one file whose metadata reports duration d
handleUpload(d) ==
    /\ nextId <= MaxUploads
    /\ d = SourceDuration(nextId)
    /\ nextId' = nextId + 1
    /\ UNCHANGED uploads
    /\ ClipsChanged(Append1(clips, [id |-> nextId, duration |-> d, startTime |-> 0,
                                    clipDuration |-> ClipDuration]))

\* positions of the trim slider of a clip, within 0 .. max(0, duration - clipDuration)
SliderValues(c) ==
    {v \in {0, TrimStep * MaxTrimSteps} :
        v <= Max(0, c.duration - c.clipDuration)}

\* handleUpdateClip(id, {startTime: v}) from the trim slider of clip k
handleUpdateClip(k, v) ==
    /\ k \in 1..Len(clips)
    /\ v \in SliderValues(clips[k])
    /\ v # clips[k].startTime
    /\ UNCHANGED <<nextId, uploads>>
    /\ ClipsChanged([clips EXCEPT ![k].startTime = v])

Filter(cs, id) == SelectSeq(cs, LAMBDA c : c.id # id)

handleRemoveClip(k) ==
    /\ k \in 1..Len(clips)
    /\ UNCHANGED <<nextId, uploads>>
    /\ ClipsChanged(Filter(clips, clips[k].id))

\* arrayMove(clips, from, to)
arrayMove(cs, from, to) ==
    LET without == [j \in 1..(Len(cs) - 1) |-> IF j < from THEN cs[j] ELSE cs[j + 1]]
    IN [j \in 1..Len(cs) |->
          IF j < to THEN without[j]
          ELSE IF j = to THEN cs[from]
          ELSE without[j - 1]]

\* handleDragEnd -> handleReorderClips
handleReorderClips(from, to) ==
    /\ from \in 1..Len(clips)
    /\ to \in 1..Len(clips)
    /\ from # to
    /\ UNCHANGED <<nextId, uploads>>
    /\ ClipsChanged(arrayMove(clips, from, to))

\* the batches handed to handleUpload: per file, whether its metadata loads
Batches == UNION {[1..n -> BOOLEAN] : n \in 1..MaxBatch}

\* number of files of a call whose duration probe has not run yet and will
Loadable(c) == Cardinality({j \in c.i..Len(c.files) : c.files[j]})

RECURSIVE SumLoadable(_, _)
SumLoadable(us, n) == IF n = 0 THEN 0 ELSE SumLoadable(us, n - 1) + Loadable(us[n])

\* handleUpload(files): the call starts waiting for the metadata of its first file
handleUploadFiles(files) ==
    /\ Len(uploads) < MaxCalls
    /\ nextId + SumLoadable(uploads, Len(uploads))
           + Cardinality({j \in 1..Len(files) : files[j]}) <= MaxUploads + 1
    /\ uploads' = Append(uploads, [files |-> files, i |-> 1, newClips |-> <<>>])
    /\ UNCHANGED <<clips, titleSettings, nextId, playVars, exportVars, handleVars,
                   encoderVars, jobVars, frameVars>>

\* video.onloadedmetadata of the file the u-th call waits for: the promise
\* resolves, the clip is pushed, and the loop goes on to the next file or,
\* after the last one, to setClips((prev) => [...prev, ...newClips])
onloadedmetadata(u) ==
    /\ u \in 1..Len(uploads)
    /\ LET c == uploads[u]
           pushed == Append1(c.newClips,
                             [id |-> nextId, duration |-> SourceDuration(nextId),
                              startTime |-> 0, clipDuration |-> ClipDuration])
       IN /\ c.files[c.i]
          /\ nextId' = nextId + 1
          /\ IF c.i < Len(c.files)
             THEN /\ uploads' = [uploads EXCEPT ![u].i = c.i + 1,
                                                ![u].newClips = pushed]
                  /\ UNCHANGED <<clips, titleSettings, playVars, exportVars,
                                 handleVars, encoderVars, jobVars, frameVars>>
             ELSE /\ uploads' = RemoveAt(uploads, u)
                  /\ ClipsChanged(clips \o pushed)

\* setTitleSettings({...titleSettings, text}) / ({...titleSettings, style}):
\* a new object each time, so the effects on titleSettings run
setTitleSettings(ts) ==
    /\ titleSettings' = ts
    /\ exportBlob' = Invalidate(exportBlob, TRUE)
    /\ currentTime' = 0
    /\ PreviewEffects(clips, isReady, isPlaying)
    /\ UNCHANGED <<clips, nextId, uploads, isPlaying, isReady, isExporting, exportPhase,
                   exportProgress, error, handleVars, encoderVars, jobVars,
                   time, activeClip, clipLocalTime, resolved, seekVars, animVars,
                   overlayVars>>

setTitleText(text) ==
    /\ text # titleSettings.text
    /\ setTitleSettings([titleSettings EXCEPT !.text = text])

setTitleStyle(style) ==
    setTitleSettings([titleSettings EXCEPT !.style = style])

\* ------------------------------------------------------------------------
\* Playback controls
\* ------------------------------------------------------------------------
\* the play/pause button is disabled when clips.length === 0 || isExporting
PlayButtonAlwaysEnabled == Len(clips) > 0

PlayButtonEnabled == Len(clips) > 0 /\ ~isExporting

\* onClick={() => setIsPlaying(!isPlaying)}
togglePlay ==
    /\ PlayButtonEnabled
    /\ isPlaying' = ~isPlaying
    /\ startTimeRef' = IF isPlaying' THEN startTimeRef ELSE 0
    /\ PreviewEffects(clips, isReady, isPlaying')
    /\ UNCHANGED <<appVars, currentTime, isReady, exportVars, handleVars,
                   encoderVars, jobVars, time, activeClip, clipLocalTime, resolved,
                   seekVars, clock, overlayVars>>

\* the play overlay is rendered when !isPlaying && !isExporting && isReady
PlayOverlayShown == ~isPlaying /\ ~isExporting /\ isReady

\* onClick={() => setIsPlaying(true)}
playOverlayClick ==
    /\ PlayOverlayShown
    /\ isPlaying' = TRUE
    /\ PreviewEffects(clips, isReady, TRUE)
    /\ UNCHANGED <<appVars, currentTime, isReady, exportVars, handleVars,
                   encoderVars, jobVars, time, activeClip, clipLocalTime, resolved,
                   seekVars, animVars, overlayVars>>

\* the positions the seek bar is moved to, and its max: totalDuration || 1
SeekTimes == {0, TicksPerSecond \div 2} \cup {n * TicksPerSecond : n \in 1..MaxUploads}
SeekMax(cs) == IF totalDuration(cs) = 0 THEN TicksPerSecond ELSE totalDuration(cs)

\* handleSeek(time): setCurrentTime; paused, the frame at `time` is drawn;
\* playing, the start reference is moved to performance.now() - time
handleSeek(t) ==
    /\ t <= SeekMax(clips)
    /\ t # currentTime
    /\ currentTime' = t
    /\ IF isPlaying
       THEN /\ startTimeRef' = clock - t
            /\ UNCHANGED timers
       ELSE /\ Len(timers) < MaxTimers
            /\ timers' = Append(timers, SeekTimer(t, clips))
            /\ UNCHANGED startTimeRef
    /\ UNCHANGED <<appVars, isPlaying, isReady, exportVars, handleVars, encoderVars,
                   jobVars, time, activeClip, clipLocalTime, resolved, seekVars,
                   clock, overlayVars, playing, display>>

\* the handle renderFrame plays: if (isPlayingRef.current && video.paused) video.play()
Played(ps, k, cs, play) ==
    IF play /\ k # 0 /\ cs[k].id \in DOMAIN videoElements
    THEN ps \cup {cs[k].id} ELSE ps

\* a pending timer may run next when no timer set before it is due earlier
Due(ts, k) == \A j \in 1..(k - 1) : ts[j].delay > ts[k].delay

\* the callback of the k-th pending timer: renderFrame(time) in preview mode,
\* over the clips of the render that set the timer
onTimeout(k) ==
    /\ k \in 1..Len(timers)
    /\ Due(timers, k)
    /\ LET t == timers[k].time
           r == Resolve(t, timers[k].clips)
       IN /\ time' = t
          /\ activeClip' = r.activeClip
          /\ clipLocalTime' = r.clipLocalTime
          /\ resolved' = TRUE
          /\ display' = [time |-> t, by |-> timers[k].kind]
          /\ playing' = Played(playing, r.activeClip, timers[k].clips, isPlaying)
    /\ timers' = RemoveAt(timers, k)
    /\ UNCHANGED <<appVars, playVars, exportVars, handleVars, encoderVars, jobVars,
                   seekVars, animVars, overlayVars>>

\* the time between two animation frames
FrameGaps == {TicksPerFrame * 10, TicksPerFrame * 15}

\* animate(timestamp), called by requestAnimationFrame while isPlaying, gap
\* ticks after the frame before: setCurrentTime(elapsed), renderFrame(elapsed)
animate(gap) ==
    /\ isPlaying
    /\ clock + gap <= MaxPlayback * TicksPerSecond
    /\ LET timestamp == clock + gap
           start == IF startTimeRef = 0 THEN timestamp ELSE startTimeRef
           rebase == timestamp - start >= totalDuration(clips)
           elapsed == IF rebase THEN 0 ELSE timestamp - start
       IN /\ clock' = timestamp
          /\ startTimeRef' = IF rebase THEN timestamp ELSE start
          /\ currentTime' = elapsed
          /\ time' = elapsed
          /\ activeClip' = Resolve(elapsed, clips).activeClip
          /\ clipLocalTime' = Resolve(elapsed, clips).clipLocalTime
          /\ resolved' = TRUE
          /\ display' = [time |-> elapsed, by |-> "tick"]
          /\ playing' = Played(playing, Resolve(elapsed, clips).activeClip, clips, TRUE)
    /\ UNCHANGED <<appVars, isPlaying, isReady, exportVars, handleVars, encoderVars,
                   jobVars, seekVars, overlayVars, timers>>

\* ------------------------------------------------------------------------
\* Overlay Renderer: drawText
\* ------------------------------------------------------------------------
\* s.padStart(n, c)
RECURSIVE padStart(_, _, _)
padStart(s, n, c) == IF Len(s) >= n THEN s ELSE padStart(c \o s, n, c)

\* the wall clock when the page is opened
StartClock ==
    [year |-> 2024, month |-> 1, day |-> 1, hour |-> 11, minute |-> 59, second |-> 59]

SecondOfDay(d) == (d.hour * 60 + d.minute) * 60 + d.second

\* the wall clock one second later, on the same day
NextSecond(d) ==
    IF d.second < 59 THEN [d EXCEPT !.second = d.second + 1]
    ELSE IF d.minute < 59 THEN [d EXCEPT !.second = 0, !.minute = d.minute + 1]
    ELSE [d EXCEPT !.second = 0, !.minute = 0, !.hour = d.hour + 1]

NoRun == [settings |-> [text |-> "", style |-> "none"], frames |-> <<>>]

Styles == {"none", "simple", "minimal", "camcorder", "cinematic", "magazine"}

LowerCase == "abcdefghijklmnopqrstuvwxyz"
UpperCase == "ABCDEFGHIJKLMNOPQRSTUVWXYZ"

\* the upper-case form of the one-character string ch
UpperChar(ch) ==
    IF \E n \in 1..Len(LowerCase) : SubSeq(LowerCase, n, n) = ch
    THEN LET n == CHOOSE n \in 1..Len(LowerCase) : SubSeq(LowerCase, n, n) = ch
         IN SubSeq(UpperCase, n, n)
    ELSE ch

\* s.toUpperCase()
RECURSIVE toUpperCase(_)
toUpperCase(s) ==
    IF Len(s) = 0 THEN s
    ELSE UpperChar(SubSeq(s, 1, 1)) \o toUpperCase(SubSeq(s, 2, Len(s)))

TwoDigit(n) == padStart(ToString(n), 2, "0")

\* d.toLocaleTimeString('en-US', {hour12: false, hour: '2-digit', ..})
toLocaleTimeString(d) ==
    TwoDigit(d.hour) \o ":" \o TwoDigit(d.minute) \o ":" \o TwoDigit(d.second)

MonthShort == <<"Jan", "Feb", "Mar", "Apr", "May", "Jun",
                "Jul", "Aug", "Sep", "Oct", "Nov", "Dec">>

\* d.toLocaleDateString('en-US', {month: 'short', day: '2-digit', year: 'numeric'})
toLocaleDateString(d) ==
    MonthShort[d.month] \o " " \o TwoDigit(d.day) \o ", " \o ToString(d.year)

\* the drawing state of a 2D context after renderFrame has cleared the canvas
\* (ctx.fillStyle = "black") and drawn the video
DefaultState ==
    [textAlign |-> "start", textBaseline |-> "alphabetic", font |-> "10px sans-serif",
     fillStyle |-> "black", shadowColor |-> "rgba(0,0,0,0)", shadowBlur |-> 0,
     letterSpacing |-> "0px"]

\* ctx.fillRect(0, 0, ..) and ctx.drawImage(video, ..) of renderFrame; lengths
\* are in thousandths of the canvas' width (x, w) and height (y, h)
FrameCtx ==
    [ops |-> <<[op |-> "fillRect", text |-> "", x |-> 0, y |-> 0, w |-> 1000,
                h |-> 1000, state |-> DefaultState],
               [op |-> "drawImage", text |-> "", x |-> 0, y |-> 0, w |-> 1000,
                h |-> 1000, state |-> DefaultState]>>,
     state |-> DefaultState,
     stack |-> <<>>]

\* ctx.save() and ctx.restore()
Save(c) == [c EXCEPT !.stack = Append(c.stack, c.state)]
Restore(c) ==
    IF Len(c.stack) = 0 THEN c
    ELSE [c EXCEPT !.state = c.stack[Len(c.stack)],
                   !.stack = SubSeq(c.stack, 1, Len(c.stack) - 1)]

\* ctx.fillText(text, x, y) and ctx.fillRect(x, y, w, h) in the current state
FillText(c, text, x, y) ==
    [c EXCEPT !.ops = Append(c.ops, [op |-> "fillText", text |-> text, x |-> x,
                                     y |-> y, w |-> 0, h |-> 0, state |-> c.state])]
FillRect(c, x, y, w, h) ==
    [c EXCEPT !.ops = Append(c.ops, [op |-> "fillRect", text |-> "", x |-> x,
                                     y |-> y, w |-> w, h |-> h, state |-> c.state])]

\* if (isHighQuality) { ctx.shadowColor = ..; ctx.shadowBlur = ..; }
Shadow(c, isHighQuality, color, blur) ==
    IF isHighQuality
    THEN [c EXCEPT !.state.shadowColor = color, !.state.shadowBlur = blur]
    ELSE c

\* the cases of switch (style)
DrawSimple(c, text, isHighQuality) ==
    LET c1 == [c EXCEPT !.state.textAlign = "center", !.state.textBaseline = "middle",
                        !.state.font = "bold 80 Inter"]
        c2 == Shadow(c1, isHighQuality, "rgba(0,0,0,0.6)", 12)
        c3 == [c2 EXCEPT !.state.fillStyle = "white"]
    IN FillText(c3, text, 500, 500)

DrawMinimal(c, text) ==
    LET c1 == [c EXCEPT !.state.textAlign = "center", !.state.textBaseline = "bottom",
                        !.state.font = "300 45 Inter", !.state.letterSpacing = "6px",
                        !.state.fillStyle = "white"]
    IN FillText(c1, toUpperCase(text), 500, 920)

DrawCamcorder(c, text, date) ==
    LET c1 == [c EXCEPT !.state.textAlign = "left", !.state.textBaseline = "bottom",
                        !.state.font = "40 JetBrains Mono", !.state.fillStyle = "#FFD700"]
        timeStr == toLocaleTimeString(date)
        dateStr == toUpperCase(toLocaleDateString(date))
        c2 == FillText(c1, "REC  " \o timeStr, 60, 880)
        c3 == FillText(c2, dateStr, 60, 940)
        c4 == [c3 EXCEPT !.state.textAlign = "right"]
    IN FillText(c4, toUpperCase(text), 940, 940)

DrawCinematic(c, text) ==
    LET c1 == [c EXCEPT !.state.fillStyle = "black"]
        c2 == FillRect(c1, 0, 0, 1000, 120)
        c3 == FillRect(c2, 0, 880, 1000, 120)
        c4 == [c3 EXCEPT !.state.textAlign = "center", !.state.textBaseline = "middle",
                         !.state.font = "italic 500 50 Inter",
                         !.state.fillStyle = "rgba(255,255,255,0.9)",
                         !.state.letterSpacing = "6px"]
    IN FillText(c4, text, 500, 940)

DrawMagazine(c, text, isHighQuality) ==
    LET c1 == [c EXCEPT !.state.textAlign = "center", !.state.textBaseline = "middle",
                        !.state.font = "italic 700 120 serif", !.state.fillStyle = "white"]
        c2 == Shadow(c1, isHighQuality, "rgba(0,0,0,0.3)", 8)
    IN FillText(c2, text, 500, 500)

\* the early return without the test of the text
OverlayHiddenStyleOnly(settings) == settings.style = "none"

\* if (!text || style === "none") return;
OverlayHidden(settings) == settings.text = "" \/ settings.style = "none"

\* drawText(ctx, width, height, isHighQuality) with titleSettings = settings,
\* new Date() returning date
DrawText(c, settings, isHighQuality, date) ==
    IF OverlayHidden(settings) THEN c
    ELSE LET text == settings.text
             style == settings.style
             saved == Save(c)
             drawn == CASE style = "simple" -> DrawSimple(saved, text, isHighQuality)
                        [] style = "minimal" -> DrawMinimal(saved, text)
                        [] style = "camcorder" -> DrawCamcorder(saved, text, date)
                        [] style = "cinematic" -> DrawCinematic(saved, text)
                        [] style = "magazine" -> DrawMagazine(saved, text, isHighQuality)
                        [] OTHER -> saved
         IN Restore(drawn)

\* ------------------------------------------------------------------------
\* Export Driver: handleMainAction, one action per suspension point
\* ------------------------------------------------------------------------
ErrorMessage == "export failed"

CeilDiv(a, b) == (a + b - 1) \div b
\* Math.round of the non-negative fraction a / b
RoundDiv(a, b) == (2 * a + b) \div (2 * b)

\* Math.max(1, Math.ceil(totalDuration * fps))
TotalFramesFloor(cs) == Max(1, (totalDuration(cs) * fps) \div TicksPerSecond - 1)

TotalFrames(cs) == Max(1, CeilDiv(totalDuration(cs) * fps, TicksPerSecond))


\* `f${i.toString().padStart(5, '0')}.jpg`
FrameName(i) == "f" \o padStart(ToString(i), PadWidth, "0") \o ".jpg"

FrameNames(n) == {FrameName(i) : i \in 0..(n - 1)}

\* number of stills the pattern f%05d.jpg matches: f00000.jpg, f00001.jpg, ..
\* up to the first name missing from the store
RECURSIVE PatternLength(_, _)
PatternLength(st, n) == IF FrameName(n) \in st THEN PatternLength(st, n + 1) ELSE n

\* the main action button is disabled when clips.length === 0 || isExporting
MainButtonAlwaysEnabled == ~isExporting

MainButtonEnabled == Len(clips) > 0 /\ ~isExporting

\* handleMainAction with no artifact: the export starts
handleMainAction ==
    /\ MainButtonEnabled
    /\ ~(isExporting \/ ~isReady)
    /\ exportBlob = NoBlob
    /\ isExporting' = TRUE
    /\ isPlaying' = FALSE
    /\ exportPhase' = "rendering"
    /\ exportProgress' = 0
    /\ error' = NULL
    /\ job' = [clips |-> clips, totalDuration |-> totalDuration(clips),
               totalFrames |-> TotalFrames(clips), i |-> 0, pc |-> "load",
               exitCode |-> 0, exportPhase |-> exportPhase, progress |-> 0 - 1]
    /\ written' = {}
    /\ startTimeRef' = 0
    /\ IF isPlaying THEN PreviewEffects(clips, isReady, FALSE)
                    ELSE UNCHANGED previewVars
    /\ UNCHANGED <<appVars, currentTime, isReady, exportBlob, handleVars,
                   encoderVars, time, activeClip, clipLocalTime, resolved,
                   seekVars, clock, overlayVars>>

\* catch (err) { setError(..) } finally { setIsExporting(false); setExportPhase("idle") }
catchAndFinally ==
    /\ error' = ErrorMessage
    /\ isExporting' = FALSE
    /\ exportPhase' = "idle"
    /\ job' = NoJob
    /\ written' = {}

\* finally { .. } after the try block has completed
finallyOnly ==
    /\ isExporting' = FALSE
    /\ exportPhase' = "idle"
    /\ job' = NoJob
    /\ written' = {}

\* await loadFFmpeg(): returns the cached instance, loads it, or throws
loadFFmpeg ==
    /\ job.pc # "none"
    /\ job.pc = "load"
    /\ \/ /\ ffmpegLoaded
          /\ job' = [job EXCEPT !.pc = "frame"]
          /\ UNCHANGED <<ffmpegLoaded, progressPhase, isExporting, exportPhase,
                         error, written>>
       \/ /\ ~ffmpegLoaded
          /\ ffmpegLoaded' = TRUE
          /\ progressPhase' = job.exportPhase
          /\ job' = [job EXCEPT !.pc = "frame"]
          /\ UNCHANGED <<isExporting, exportPhase, error, written>>
       \/ /\ ~ffmpegLoaded
          /\ catchAndFinally
          /\ UNCHANGED <<ffmpegLoaded, progressPhase>>
    /\ UNCHANGED <<appVars, playVars, exportProgress, exportBlob, handleVars,
                   store, outFile, frameVars>>

\* the id of the clip renderFrame(i / fps) resolves in the clips the export
\* was started on; its handle is looked up in videoElementsRef
FrameClipId(j) ==
    j.clips[Resolve(j.i * TicksPerFrame, j.clips).activeClip].id

\* the wait of renderFrame in export mode ends when the handle fires
\* 'seeked', which only a handle whose media has loaded is sure to do
SeekWaitSeekedOnly(id) == id \in DOMAIN videoElements => videoElements[id].warm

\* .. or when setTimeout(resolve, 250) fires
SeekWait(id) == SeekWaitSeekedOnly(id) \/ TRUE

\* setExportProgress scaled into the whole range instead of its first half
RenderProgressFull(i, n) == RoundDiv(i * 2 * ProgressHalf, n)

\* setExportProgress(Math.round((i / totalFrames) * 50))
RenderProgress(i, n) == RoundDiv(i * ProgressHalf, n)

\* the phase after iteration i of the rendering loop
PhaseAfterFrameEarly(i, n) == IF i + 2 >= n THEN "encoding" ELSE "rendering"

PhaseAfterFrame(i, n) == IF i + 1 >= n THEN "encoding" ELSE "rendering"

\* one iteration of the rendering loop: renderFrame(i / fps, offscreenCanvas),
\* toBlob, writeFile, setExportProgress; after the last one setExportPhase
\* ("encoding") and the encoder call
renderLoop ==
    /\ job.pc # "none"
    /\ job.pc = "frame"
    /\ SeekWait(FrameClipId(job))
    /\ LET i == job.i
           phase == PhaseAfterFrame(i, job.totalFrames)
       IN /\ store' = store \cup {FrameName(i)}
          /\ written' = written \cup {FrameName(i)}
          /\ exportProgress' = RenderProgress(i, job.totalFrames)
          /\ exportPhase' = phase
          /\ job' = [job EXCEPT !.i = i + 1,
                                !.pc = IF phase = "encoding" THEN "exec" ELSE "frame"]
    /\ UNCHANGED <<appVars, playVars, isExporting, exportBlob, error, handleVars,
                   ffmpegLoaded, progressPhase, outFile, frameVars>>

\* toBlob yields null ("Frame error") or writeFile throws
renderLoopThrows ==
    /\ job.pc # "none"
    /\ job.pc = "frame"
    /\ job.i <= MaxThrowFrame
    /\ catchAndFinally
    /\ UNCHANGED <<appVars, playVars, exportProgress, exportBlob, handleVars,
                   encoderVars, frameVars>>

\* what the encoder writes to out.mp4 when it succeeds on the pattern
Encoded(st) == [frames |-> PatternLength(st, 0)]

\* await ffmpeg.exec([.. "-i", "f%05d.jpg", .. "out.mp4"]): resolves with exit
\* code 0, resolves with a non-zero exit code (the result is not looked at),
\* or rejects
exec ==
    /\ job.pc # "none"
    /\ job.pc = "exec"
    /\ \/ /\ outFile' = Encoded(store)
          /\ job' = [job EXCEPT !.pc = "read"]
          /\ UNCHANGED <<isExporting, exportPhase, error, written>>
       \/ /\ job' = [job EXCEPT !.pc = "read", !.exitCode = 1]
          /\ UNCHANGED <<outFile, isExporting, exportPhase, error, written>>
       \/ /\ catchAndFinally
          /\ UNCHANGED outFile
    /\ UNCHANGED <<appVars, playVars, exportProgress, exportBlob, handleVars,
                   ffmpegLoaded, progressPhase, store, frameVars>>

\* the encoder's "progress" event during exec, progress = p / 100: the
\* listener registered by loadFFmpeg tests the exportPhase it closes over
onProgress(p) ==
    /\ job.pc # "none"
    /\ job.pc = "exec"
    /\ p > job.progress
    /\ job' = [job EXCEPT !.progress = p]
    /\ exportProgress' = IF progressPhase = "encoding"
                         THEN ProgressHalf + RoundDiv(p * ProgressHalf, 100)
                         ELSE exportProgress
    /\ UNCHANGED <<appVars, playVars, isExporting, exportPhase, exportBlob, error,
                   handleVars, encoderVars, written, frameVars>>

\* await ffmpeg.readFile("out.mp4"); setExportBlob(mp4Blob)
readFile ==
    /\ job.pc # "none"
    /\ job.pc = "read"
    /\ \/ /\ outFile # NoBlob
          /\ exportBlob' = outFile
          /\ job' = [job EXCEPT !.pc = "cleanup"]
          /\ UNCHANGED <<isExporting, exportPhase, error, written>>
       \/ /\ catchAndFinally
          /\ UNCHANGED exportBlob
    /\ UNCHANGED <<appVars, playVars, exportProgress, handleVars, encoderVars,
                   frameVars>>

\* for (let i = 0; i < totalFrames; i++) await ffmpeg.deleteFile(..), stopping
\* one still short
DeletedFilesShort(n) == FrameNames(n - 1)

\* the stills the deleteFile loop deletes
DeletedFiles(n) == FrameNames(n)

\* the deleteFile loop over the stills of this export, then the File for
\* sharing: navigator.share when it can share files, else triggerDownload
deleteFiles ==
    /\ job.pc # "none"
    /\ job.pc = "cleanup"
    /\ store' = store \ DeletedFiles(job.totalFrames)
    /\ \/ /\ job' = [job EXCEPT !.pc = "share"]
          /\ UNCHANGED <<isExporting, exportPhase, written>>
       \/ finallyOnly
    /\ UNCHANGED <<appVars, playVars, exportProgress, exportBlob, error,
                   handleVars, ffmpegLoaded, progressPhase, outFile, frameVars>>

\* await navigator.share(..): resolves, or rejects into the catch block
share ==
    /\ job.pc # "none"
    /\ job.pc = "share"
    /\ \/ /\ finallyOnly
          /\ UNCHANGED error
       \/ catchAndFinally
    /\ UNCHANGED <<appVars, playVars, exportProgress, exportBlob, handleVars,
                   encoderVars, frameVars>>

\* ------------------------------------------------------------------------
\* Initial state: App with no clips, title text "" in style "simple",
\* VideoPreview before its first effects have run on a non-empty Sequence
\* ------------------------------------------------------------------------
InitApp ==
    /\ titleSettings = [text |-> "", style |-> "simple"]
    /\ nextId = 1
    /\ uploads = <<>>
    /\ isPlaying = FALSE
    /\ currentTime = 0
    /\ isReady = TRUE
    /\ isExporting = FALSE
    /\ exportPhase = "idle"
    /\ exportProgress = 0
    /\ exportBlob = NoBlob
    /\ error = NULL
    /\ videoElements = <<>>
    /\ revoked = <<>>
    /\ preloadRuns = <<>>
    /\ ffmpegLoaded = FALSE
    /\ progressPhase = NULL
    /\ store = {}
    /\ outFile = NoBlob
    /\ job = NoJob
    /\ written = {}

InitOverlayIdle ==
    /\ startTimeRef = 0
    /\ clock = TicksPerFrame
    /\ now = StartClock
    /\ ctx = FrameCtx
    /\ exportRun = NoRun

\* after the first render: the initial-frame effect has drawn frame 0 and the
\* ready-frame effect has set its timer
InitPreview ==
    /\ timers = ReadyEffect(<<>>, clips, isReady, isPlaying)
    /\ playing = {}
    /\ display = [time |-> 0, by |-> "effect"]

Init ==
    /\ InitApp
    /\ clips = <<>>
    /\ time = 0
    /\ activeClip = 0
    /\ clipLocalTime = 0
    /\ resolved = TRUE
    /\ video = NoVideo
    /\ frame = NoFrame
    /\ InitOverlayIdle
    /\ InitPreview

\* ------------------------------------------------------------------------
\* The resolver on its own: every Sequence of at most MaxLen clips and every
\* time from TimeMargin ticks before 0 to TimeMargin ticks after the end
\* ------------------------------------------------------------------------
ResolverClips ==
    UNION {{[k \in 1..n |-> [id |-> k, duration |-> f[k], startTime |-> 0,
                             clipDuration |-> f[k]]] :
            f \in [1..n -> ResolverDurations]} : n \in 0..MaxLen}

InitResolver ==
    /\ InitApp
    /\ clips \in ResolverClips
    /\ time \in (0 - TimeMargin)..(totalDuration(clips) + TimeMargin)
    /\ activeClip = 0
    /\ clipLocalTime = 0
    /\ resolved = FALSE
    /\ video = NoVideo
    /\ frame = NoFrame
    /\ InitOverlayIdle
    /\ InitPreview

\* the lookup loop of renderFrame run on (time, clips)
LookupStep ==
    /\ ~resolved
    /\ activeClip' = Resolve(time, clips).activeClip
    /\ clipLocalTime' = Resolve(time, clips).clipLocalTime
    /\ resolved' = TRUE
    /\ UNCHANGED <<appVars, playVars, exportVars, handleVars, encoderVars,
                   jobVars, time, seekVars, animVars, previewVars, overlayVars>>

\* the statement after the lookup loop in the variant of renderFrame that
\* prepares the next clip (src/unnamed/part_002, part_000):
\* const timeRemainingInClip = activeClip.clipDuration - clipLocalTime,
\* a TypeError when activeClip is null
timeRemainingInClip(cs, k, local) ==
    IF k = 0 THEN [thrown |-> TRUE, value |-> 0]
    ELSE [thrown |-> FALSE, value |-> cs[k].clipDuration - local]

NextResolver == LookupStep

SpecResolver == InitResolver /\ [][NextResolver]_vars

\* ------------------------------------------------------------------------
\* renderFrame(i / fps, offscreenCanvas) on its own: one exported frame of
\* every Sequence of at most MaxUploads clips, the active clip's handle
\* presenting any frame when the call starts
\* ------------------------------------------------------------------------
FrameClips ==
    UNION {{cs \in [1..n -> [id : 1..n,
                             duration : {SourceDuration(m) : m \in 1..MaxUploads},
                             startTime : {0, TrimStep * MaxTrimSteps},
                             clipDuration : {ClipDuration}]] :
               \A k \in 1..n : cs[k].id = k /\ cs[k].startTime \in SliderValues(cs[k])} :
           n \in 1..MaxUploads}

InitFrame ==
    /\ InitApp
    /\ clips \in FrameClips
    /\ time \in {i * TicksPerFrame : i \in 0..(TotalFrames(clips) - 1)}
    /\ activeClip = 0
    /\ clipLocalTime = 0
    /\ resolved = FALSE
    /\ video \in {[currentTime |-> p, shown |-> p, seeking |-> FALSE, fires |-> f] :
                   p \in {0, TrimStep}, f \in BOOLEAN}
    /\ frame = [pc |-> "seek", expectedTime |-> 0, by |-> "none", sampled |-> 0]
    /\ InitOverlayIdle
    /\ InitPreview

\* const expectedTime = activeClip.startTime + clipLocalTime, without the trim
ExpectedTimeNoTrim(c, local) == local

ExpectedTime(c, local) == c.startTime + local

\* video.currentTime = expectedTime: the handle starts a seek to the position,
\* which it limits to its media's duration; the frame it presents stays
exportSeek ==
    /\ resolved /\ activeClip # 0
    /\ frame.pc = "seek"
    /\ LET expectedTime == ExpectedTime(clips[activeClip], clipLocalTime)
       IN /\ video' = [video EXCEPT
                          !.currentTime = Min(expectedTime, clips[activeClip].duration),
                          !.seeking = TRUE]
          /\ frame' = [frame EXCEPT !.pc = "wait", !.expectedTime = expectedTime]
    /\ UNCHANGED <<appVars, playVars, exportVars, handleVars, encoderVars, jobVars,
                   time, activeClip, clipLocalTime, resolved, animVars, previewVars,
                   overlayVars>>

\* the handle fires 'seeked': it presents the frame at its position, and
\* onSeeked resolves the wait
onSeeked ==
    /\ frame.pc = "wait"
    /\ video.fires /\ video.seeking
    /\ video' = [video EXCEPT !.shown = video.currentTime, !.seeking = FALSE]
    /\ frame' = [frame EXCEPT !.pc = "draw", !.by = "seeked"]
    /\ UNCHANGED <<appVars, playVars, exportVars, handleVars, encoderVars, jobVars,
                   time, activeClip, clipLocalTime, resolved, animVars, previewVars,
                   overlayVars>>

\* setTimeout(resolve, 250) fires first
seekTimeout ==
    /\ frame.pc = "wait"
    /\ frame' = [frame EXCEPT !.pc = "draw", !.by = "timeout"]
    /\ UNCHANGED <<appVars, playVars, exportVars, handleVars, encoderVars, jobVars,
                   time, activeClip, clipLocalTime, resolved, video, animVars, previewVars,
                   overlayVars>>

\* ctx.drawImage(video, ..) samples the frame the handle presents
drawImage ==
    /\ frame.pc = "draw"
    /\ frame' = [frame EXCEPT !.pc = "done", !.sampled = video.shown]
    /\ UNCHANGED <<appVars, playVars, exportVars, handleVars, encoderVars, jobVars,
                   time, activeClip, clipLocalTime, resolved, video, animVars, previewVars,
                   overlayVars>>

NextFrame == LookupStep \/ exportSeek \/ onSeeked \/ seekTimeout \/ drawImage

SpecFrame == InitFrame /\ [][NextFrame]_vars

\* ------------------------------------------------------------------------
\* The playback loop: clips of 2.0 s sources are uploaded and removed,
\* playback is started, stopped and sought, frames arrive for MaxPlayback
\* seconds
\* ------------------------------------------------------------------------
NextPlayback ==
    \/ handleUpload(SourceDuration(1))
    \/ \E k \in 1..MaxUploads : handleRemoveClip(k)
    \/ \E id \in 1..MaxUploads : onCanPlay(id)
    \/ togglePlay
    \/ playOverlayClick
    \/ handleMainAction
    \/ \E t \in SeekTimes : handleSeek(t)
    \/ \E gap \in FrameGaps : animate(gap)
    \/ \E k \in 1..MaxTimers : onTimeout(k)

SpecPlayback == Init /\ [][NextPlayback]_vars

\* the preview of a Sequence of up to MaxUploads clips: uploads, playback and
\* the timers
NextPreview ==
    \/ \E d \in {SourceDuration(n) : n \in 1..MaxUploads} : handleUpload(d)
    \/ \E id \in 1..MaxUploads : onCanPlay(id)
    \/ togglePlay
    \/ \E gap \in FrameGaps : animate(gap)
    \/ \E k \in 1..MaxTimers : onTimeout(k)

SpecPreview == Init /\ [][NextPreview]_vars

\* uploads of several files, their duration probes, removals and trims
NextUpload ==
    \/ \E files \in Batches : handleUploadFiles(files)
    \/ \E u \in 1..MaxCalls : onloadedmetadata(u)
    \/ \E k \in 1..MaxUploads : handleRemoveClip(k)
    \/ \E id \in 1..MaxUploads : onCanPlay(id)

SpecUpload == Init /\ [][NextUpload]_vars

\* ------------------------------------------------------------------------
\* drawText on its own: the frames of a one-clip Sequence drawn for the
\* preview and for an export while the wall clock advances and the title is
\* edited
\* ------------------------------------------------------------------------
InitOverlay ==
    /\ InitApp
    /\ clips \in {cs \in FrameClips : Len(cs) = 1}
    /\ time = 0
    /\ activeClip = 0
    /\ clipLocalTime = 0
    /\ resolved = TRUE
    /\ video = NoVideo
    /\ frame = NoFrame
    /\ InitOverlayIdle
    /\ InitPreview

\* the wall clock advances by a second
tick ==
    /\ SecondOfDay(now) < SecondOfDay(StartClock) + MaxClockTicks
    /\ now' = NextSecond(now)
    /\ UNCHANGED <<appVars, playVars, exportVars, handleVars, encoderVars, jobVars,
                   time, activeClip, clipLocalTime, resolved, seekVars,
                   animVars, previewVars, ctx, exportRun>>

\* renderFrame(time) on the preview canvas: clear, draw the video, drawText
renderFramePreview ==
    /\ ctx' = DrawText(FrameCtx, titleSettings, FALSE, now)
    /\ UNCHANGED <<appVars, playVars, exportVars, handleVars, encoderVars, jobVars,
                   time, activeClip, clipLocalTime, resolved, seekVars,
                   animVars, previewVars, now, exportRun>>

\* handleMainAction starts its frame loop with the renderFrame, and so the
\* drawText and titleSettings, of the render it was called in
exportRunStart ==
    /\ exportRun' = [settings |-> titleSettings, frames |-> <<>>]
    /\ exportRun' # exportRun
    /\ UNCHANGED <<appVars, playVars, exportVars, handleVars, encoderVars, jobVars,
                   time, activeClip, clipLocalTime, resolved, seekVars,
                   animVars, previewVars, now, ctx>>

\* renderFrame(i / fps, offscreenCanvas) of the frame loop: isHighQuality
renderFrameExport ==
    /\ exportRun # NoRun
    /\ Len(exportRun.frames) < MaxOverlayFrames
    /\ ctx' = DrawText(FrameCtx, exportRun.settings, TRUE, now)
    /\ exportRun' = [exportRun EXCEPT !.frames = Append(@, ctx'.ops)]
    /\ UNCHANGED <<appVars, playVars, exportVars, handleVars, encoderVars, jobVars,
                   time, activeClip, clipLocalTime, resolved, seekVars,
                   animVars, previewVars, now>>

NextOverlay ==
    \/ \E text \in Texts : setTitleText(text)
    \/ \E style \in Styles : setTitleStyle(style)
    \/ tick
    \/ renderFramePreview
    \/ exportRunStart
    \/ renderFrameExport

SpecOverlay == InitOverlay /\ [][NextOverlay]_vars

\* start of clip k on the timeline: d_1 + .. + d_(k-1)
ClipStart(cs, k) == SumDurations(cs, k - 1)
\* the clips whose half-open interval [start, start + duration) contains t
Containing(cs, t) ==
    {k \in 1..Len(cs) : ClipStart(cs, k) <= t /\ t < ClipStart(cs, k) + cs[k].clipDuration}

\* C1: for a non-empty Sequence and 0 <= time < totalDuration the loop picks
\* the one clip whose cumulative interval contains time, with an offset of
\* time minus the clip's start, capped below the clip's duration, so that
\* 0 <= offset < clipDuration
C1_OneActiveClip ==
    (resolved /\ Len(clips) > 0 /\ 0 <= time /\ time < totalDuration(clips)) =>
        /\ Containing(clips, time) = {activeClip}
        /\ 0 <= clipLocalTime
        /\ clipLocalTime < clips[activeClip].clipDuration
        /\ clipLocalTime <= time - ClipStart(clips, activeClip)
        /\ (time - ClipStart(clips, activeClip) <= clips[activeClip].clipDuration - Epsilon
              => clipLocalTime = time - ClipStart(clips, activeClip))

\* three 1.0 s clips at time 1.5 s resolve to the second clip, offset 0.5 s
C1_Witness ==
    /\ resolved
    /\ Len(clips) = 3
    /\ \A k \in 1..3 : clips[k].clipDuration = TicksPerSecond
    /\ time = TicksPerSecond + TicksPerSecond \div 2
    /\ activeClip = 2
    /\ clipLocalTime = TicksPerSecond \div 2

\* C2: at time = totalDuration of a non-empty Sequence the loop picks the
\* last clip, with offset clipDuration - epsilon
C2_ClosedEndLastClip ==
    (resolved /\ Len(clips) > 0 /\ time = totalDuration(clips)) =>
        /\ activeClip = Len(clips)
        /\ clipLocalTime = clips[Len(clips)].clipDuration - Epsilon

\* C3: a time below 0 or above totalDuration selects no clip
C3_OutsideIsNone ==
    (resolved /\ (time < 0 \/ time > totalDuration(clips))) => activeClip = 0

C3_Witness ==
    /\ resolved
    /\ Len(clips) > 0
    /\ time < 0
    /\ activeClip = 0

C3_WitnessAfterEnd ==
    /\ resolved
    /\ Len(clips) > 0
    /\ time > totalDuration(clips)
    /\ activeClip = 0


\* ------------------------------------------------------------------------
\* The application
\* ------------------------------------------------------------------------
Next ==
    \/ \E d \in {SourceDuration(n) : n \in 1..MaxUploads} : handleUpload(d)
    \/ \E k \in 1..MaxUploads : \E v \in {0, TrimStep * MaxTrimSteps} : handleUpdateClip(k, v)
    \/ \E k \in 1..MaxUploads : handleRemoveClip(k)
    \/ \E from \in 1..MaxUploads : \E to \in 1..MaxUploads : handleReorderClips(from, to)
    \/ \E text \in Texts : setTitleText(text)
    \/ \E style \in StylesTried : setTitleStyle(style)
    \/ \E id \in 1..MaxUploads : onCanPlay(id)
    \/ togglePlay
    \/ playOverlayClick
    \/ handleMainAction
    \/ loadFFmpeg
    \/ renderLoop
    \/ renderLoopThrows
    \/ exec
    \/ \E p \in ProgressSignals : onProgress(p)
    \/ readFile
    \/ deleteFiles
    \/ share

Spec == Init /\ [][Next]_vars

\* the export on its own: files are uploaded and trimmed, their load events
\* arrive or not, and every call into the encoder eventually returns or throws
NextExport ==
    \/ \E d \in {SourceDuration(n) : n \in 1..MaxUploads} : handleUpload(d)
    \/ \E k \in 1..MaxUploads : \E v \in {0, TrimStep * MaxTrimSteps} : handleUpdateClip(k, v)
    \/ \E id \in 1..MaxUploads : onCanPlay(id)
    \/ handleMainAction
    \/ loadFFmpeg
    \/ renderLoop
    \/ renderLoopThrows
    \/ exec
    \/ readFile
    \/ deleteFiles
    \/ share

SpecFair ==
    /\ Init
    /\ [][NextExport]_vars
    /\ WF_vars(loadFFmpeg)
    /\ WF_vars(renderLoop)
    /\ WF_vars(exec)
    /\ WF_vars(readFile)
    /\ WF_vars(deleteFiles)

TypeOK ==
    /\ isPlaying \in BOOLEAN /\ isReady \in BOOLEAN /\ isExporting \in BOOLEAN
    /\ exportPhase \in {"idle", "rendering", "encoding"}
    /\ exportProgress \in 0..100
    /\ Len(clips) <= MaxUploads


\* ------------------------------------------------------------------------
\* Export Driver properties
\* ------------------------------------------------------------------------
\* ceil(T * fps) for T in ticks: the least n with n / fps >= T
ExpectedStills(T) ==
    CHOOSE n \in 0..(T * fps) :
        /\ n * TicksPerSecond >= T * fps
        /\ \A m \in 0..(n - 1) : m * TicksPerSecond < T * fps

EncoderInvoked == job.pc \in {"exec", "read", "cleanup", "share"}

\* C4: once the encoder has been invoked, the stills written by this export
\* are exactly ceil(T * fps) files, T the total duration of the exported
\* Sequence, named f00000.jpg, f00001.jpg, .. in frame order, and they are
\* in the store when the encoder starts
C4_StillsBeforeEncoder ==
    EncoderInvoked =>
        /\ Cardinality(written) = ExpectedStills(job.totalDuration)
        /\ \A name \in written : Len(name) = 1 + PadWidth + 4
        /\ "f00000.jpg" \in written
        /\ (job.totalFrames >= 30) => {"f00001.jpg", "f00010.jpg", "f00029.jpg"} \subseteq written
        /\ (job.totalFrames >= 60) => {"f00030.jpg", "f00059.jpg"} \subseteq written
        /\ "f00060.jpg" \in written => job.totalFrames > 60
        /\ job.pc = "exec" => written \subseteq store

\* a Sequence of 2.0 s at 30 fps: 60 stills written when the encoder runs
C4_Witness ==
    /\ job.pc = "exec"
    /\ job.totalDuration = 2 * TicksPerSecond
    /\ Cardinality(written) = 60

\* C5: an export in which frame capture, the encoder call or the read of
\* the output failed ends idle, with an error message and no artifact
C5_FailureLeavesNoArtifact ==
    [][(/\ job.pc # "none"
        /\ job'.pc = "none"
        /\ \/ job.exitCode # 0
           \/ (job.pc \in {"frame", "exec", "read"} /\ error' # NULL))
       => (exportPhase' = "idle" /\ error' # NULL /\ exportBlob' = NoBlob)]_vars

C7_ReleasedExactlyOnce ==
    \A id \in DOMAIN revoked : id \notin Ids(clips) => revoked[id] = 1

\* C8: isReady only when every clip of the Sequence has a warm handle
C8_ReadyMeansAllWarm ==
    isReady =>
        \A k \in 1..Len(clips) :
            /\ clips[k].id \in DOMAIN videoElements
            /\ videoElements[clips[k].id].warm

\* C9: never playing while an export is in flight
C9_NotPlayingWhileExporting == ~(isPlaying /\ isExporting)

\* an export in flight on a ready, non-empty Sequence, playback stopped
C9_Witness ==
    /\ isExporting
    /\ ~isPlaying
    /\ exportPhase = "rendering"
    /\ Len(clips) > 0

\* C10: the phase moves idle -> rendering -> encoding -> idle, or from
\* rendering or encoding to idle with the error set; encoding is entered
\* once every still of the export is written, and the phase is not idle
\* exactly while the export is in flight
C10_PhaseOrder ==
    [][/\ exportPhase = "idle" => exportPhase' \in {"idle", "rendering"}
       /\ exportPhase = "rendering" => exportPhase' \in {"rendering", "encoding", "idle"}
       /\ exportPhase = "encoding" => exportPhase' \in {"encoding", "idle"}
       /\ (exportPhase = "rendering" /\ exportPhase' = "idle") => error' # NULL
       /\ (exportPhase # "encoding" /\ exportPhase' = "encoding") =>
              /\ exportPhase = "rendering"
              /\ Cardinality(written') = ExpectedStills(job.totalDuration)
              /\ written' \subseteq store'
       /\ (exportPhase' # "idle") <=> isExporting'
       /\ isExporting' <=> (job'.pc # "none")]_vars

\* the encoding phase has been entered and the output is being read
C10_Witness ==
    /\ exportPhase = "encoding"
    /\ job.pc = "read"
    /\ isExporting


C12_Expected ==
    LET k == CHOOSE k \in Containing(clips, time) : TRUE
    IN clips[k].startTime + (time - ClipStart(clips, k))

C14_ClipWithinSource ==
    \A k \in 1..Len(clips) :
        /\ 0 <= clips[k].startTime
        /\ clips[k].startTime + clips[k].clipDuration <= clips[k].duration

\* C15: a frame drawn with an empty text (in any style) or with style none
\* (with any text) gets no overlay: the context is left as renderFrame handed
\* it to drawText, operations and drawing state alike
C15_OverlayNoOp ==
    [][/\ ((titleSettings.text = "" \/ titleSettings.style = "none")
            /\ UNCHANGED <<titleSettings, now, exportRun>>) => ctx' = FrameCtx
       /\ ((exportRun.settings.text = "" \/ exportRun.settings.style = "none")
            /\ Len(exportRun'.frames) > Len(exportRun.frames)) => ctx' = FrameCtx
      ]_vars

\* an exported frame drawn with a text in style none right after a frame that
\* got an overlay
C15_Witness ==
    /\ exportRun.settings = [text |-> "1s", style |-> "none"]
    /\ Len(exportRun.frames) = 1
    /\ ctx = FrameCtx
    /\ titleSettings.style = "camcorder"

\* the text operations of a frame
C16_Texts(ops) == [n \in 1..Len(ops) |-> ops[n].text]

\* C16: the frames of an export are rendered against one fixed clock: the
\* overlays of any two frames of an export in style camcorder show the same
\* REC time and date line
C16_ExportFramesOneClock ==
    \A m, n \in 1..Len(exportRun.frames) :
        C16_Texts(exportRun.frames[m]) = C16_Texts(exportRun.frames[n])

\* C17: every progress signal p of the encoder during the encoding phase
\* sets exportProgress to 50 + round(50 * p)
C17_EncodingProgress ==
    [][(job.pc = "exec" /\ job'.pc = "exec" /\ job'.progress # job.progress) =>
          exportProgress' = ProgressHalf + RoundDiv(job'.progress * ProgressHalf, 100)]_vars

\* C18: when an export that succeeded returns to idle, every still written
\* during that export has been deleted from the encoder's store
C18_StillsDeleted ==
    [][(job.pc # "none" /\ job'.pc = "none" /\ error' = NULL) =>
          /\ written # {}
          /\ written \cap store' = {}]_vars

\* idle after a successful export of a two-clip Sequence: the artifact is
\* kept and the store holds no still
C18_Witness ==
    /\ job.pc = "none" /\ ~isExporting /\ error = NULL
    /\ exportBlob # NoBlob /\ exportBlob.frames = 2 * fps
    /\ store = {}

\* C19: when the share call of an export is unavailable or rejects, the
\* export ends with the error still null and the artifact kept
C19_ShareFailureRecovered ==
    [][(job.pc \in {"cleanup", "share"} /\ job'.pc = "none") =>
          /\ error' = NULL
          /\ exportBlob' = exportBlob]_vars

\* C20: every frame of the playback loop reports a currentTime in
\* [0, totalDuration) and hands it to the compositor; a frame that reaches
\* totalDuration rebases the start reference and reports 0; playback stops
\* only through the play/pause button or the start of an export
C20_PlaybackLoops ==
    [][/\ clock' # clock =>
            /\ 0 <= currentTime' /\ currentTime' < totalDuration(clips)
            /\ time' = currentTime'
            /\ currentTime' = (clock' - startTimeRef')
            /\ isPlaying'
       /\ (isPlaying /\ ~isPlaying') =>
            \/ isExporting' /\ ~isExporting
            \/ UNCHANGED <<appVars, currentTime, exportVars, jobVars>>
      ]_vars

\* the claim without its interval, which no time of an empty Sequence is in
C20_NonEmptyOnly ==
    [][(clock' # clock /\ Len(clips) > 0) =>
            /\ 0 <= currentTime' /\ currentTime' < totalDuration(clips)
            /\ time' = currentTime'
            /\ currentTime' = (clock' - startTimeRef')
            /\ isPlaying']_vars

\* C23: the object URL of a handle is not released while its clip is in the
\* Sequence, and the frame loop of an export does not take a frame from a
\* handle whose object URL has been released
C23_NoUseAfterRelease ==
    /\ \A id \in Ids(clips) : id \in DOMAIN revoked => revoked[id] = 0
    /\ (job.pc = "frame" /\ FrameClipId(job) \in DOMAIN revoked) =>
           revoked[FrameClipId(job)] = 0

\* C26: whenever the encoder is invoked on the pattern f%05d.jpg the store
\* holds exactly the ceil(T * fps) stills of the export in flight, none left
\* by an earlier export, and the pattern matches exactly those
C26_CleanEncoderInput ==
    job.pc = "exec" =>
        /\ store = written
        /\ Cardinality(store) = ExpectedStills(job.totalDuration)
        /\ PatternLength(store, 0) = ExpectedStills(job.totalDuration)

\* C27: playing implies a non-empty Sequence
C27_PlayingImpliesClips == isPlaying => Len(clips) > 0

C25_ArtifactFresh ==
    [][(exportBlob = NoBlob /\ exportBlob' # NoBlob) => job.clips = clips']_vars

\* C21: once the frame of a seek made while stopped is on the canvas of a
\* non-empty Sequence, the canvas keeps showing it until the next action (a step that changes the
\* Sequence, the title, the playback state or the export state); a seek made
\* while playing moves the start reference to now - t, so that the next tick
\* continues from t
C21_SeekFrameStays ==
    [][/\ (/\ display.by = "seek" /\ ~isPlaying /\ Len(clips) > 0
           /\ UNCHANGED <<appVars, playVars, isExporting>>) => display' = display
       /\ (isPlaying /\ isPlaying' /\ clock' = clock /\ currentTime' # currentTime
           /\ UNCHANGED appVars) => startTimeRef' = clock - currentTime'
      ]_vars

\* C22: while an export is in flight the preview canvas is never redrawn: no
\* playback tick, effect or timer calls the compositor in preview mode
C22_SingleDriver ==
    [][display' # display => ~isExporting]_vars

\* C24: at most one media handle is playing at any time, that of the active
\* clip, also after playback has crossed a clip boundary
C24_InactivePaused ==
    Cardinality(playing) <= 1

\* C28: when the lookup loop finds no active clip (empty Sequence, or a time
\* outside the Sequence) the compositor goes on without raising an error
C28_NoActiveClipCompletes ==
    (resolved /\ activeClip = 0) =>
        ~timeRemainingInClip(clips, activeClip, clipLocalTime).thrown

\* C30: a handleUpload call that waits for a file whose metadata never loads
\* holds back no file whose metadata loads: the loaded files of the batch are
\* appended regardless of the other files
C30_LoadedFilesAppended ==
    \A u \in 1..Len(uploads) :
        ~uploads[u].files[uploads[u].i] =>
            \A j \in 1..Len(uploads[u].files) : ~uploads[u].files[j]

\* what holds of the uploads that do finish: no clip appears twice, every clip
\* starts with trim start 0 and clip duration 1.0, and new clips go after the
\* clips already present
C30_AppendedOnce ==
    /\ [](/\ \A j, k \in 1..Len(clips) : clips[j].id = clips[k].id => j = k
          /\ \A k \in 1..Len(clips) :
                clips[k].startTime = 0 /\ clips[k].clipDuration = ClipDuration)
    /\ [][Len(clips') > Len(clips) => SubSeq(clips', 1, Len(clips)) = clips]_vars

====
